---- MODULE Spec2Model ----
\* Model of gemmlowp's SSE packing kernel (internal/pack_sse.h):
\* SSERequantize and PackingRegisterBlock<..., WidthMajorSideFormatNCells4x2<Cells>>::Pack.
\* SSE registers are modelled as functions 0..15 -> byte (byte 0 is the lowest byte).
EXTENDS Integers, Sequences, FiniteSets, TLC

VARIABLES
    kCells,                     \* template parameter Cells of the kernel side format
    kBits,                      \* QuantizationParams::BitDepth::kBits
    dst_data,                   \* bytes of the PackedSideBlock buffer (-1: never written)
    dst_pos,                    \* the PackedSideBlock cursor, in bytes
    sums_of_each_slice,         \* dst->sums_of_each_slice(), one int32 per absolute column
    rounding_offset_generator,  \* state of the ScalarRoundingOffsetGenerator
    wcount,                     \* history: number of stores that hit each destination byte
    calls,                      \* history: one record per completed Pack call
    rq,                         \* the scalar requantization experiment (SpecRequantize)
    par                         \* the two concurrent invocations (SpecPar)

vars == <<kCells, kBits, dst_data, dst_pos, sums_of_each_slice,
          rounding_offset_generator, wcount, calls, rq, par>>

----------------------------------------------------------------------------
\* Bounds of the model

MaxCells == 2
MaxCalls == 2
NumSlices == 2

\* Program constants

kCellWidth == 4
kCellDepth == 2
kRegisterSize == 16
depth_step == 8

kCellSize == kCellWidth * kCellDepth
kKernelWidth(cells) == kCellWidth * cells

\* bytes of one packed block: kCells * kRegisterSize / kCellDepth cells
BlockCells(cells) == (cells * kRegisterSize) \div kCellDepth
BlockBytes(cells) == BlockCells(cells) * kCellSize

RECURSIVE Pow2(_)
Pow2(n) == IF n = 0 THEN 1 ELSE 2 * Pow2(n - 1)

\* variant: the largest value taken as 1 << kBits
kMaxValOffByOne(bits) == Pow2(bits) % 256

\* static const std::uint8_t kMaxVal = (1 << kBits) - 1;
kMaxVal(bits) == (Pow2(bits) - 1) % 256

----------------------------------------------------------------------------
\* The rounding offset generator: a sequentially advancing source of offsets
\* in [0, 254].  Its state is the current value x and the number n of draws made.

AddConst == 97

GenOffset(g) == g.x
GenAdvance(g) == [x |-> (g.x + AddConst) % 255, n |-> g.n + 1]

----------------------------------------------------------------------------
\* Scalar core of SSERequantize

\* std::uint16_t scaled = static_cast<std::uint16_t>(v) * kMaxVal;
Scaled(v, bits) == (v * kMaxVal(bits)) % 65536

\* raw_src_ui8_ptr[i] = (scaled + rounding_offset) / 255;
RequantizeByte(v, o, bits) == ((Scaled(v, bits) + o) \div 255) % 256

\* variant: the loop runs over all 16 bytes of the register
RECURSIVE RequantizeLoop16(_, _, _, _)
RequantizeLoop16(reg, g, bits, i) ==
    IF i >= 16 THEN [reg |-> reg, gen |-> g]
    ELSE RequantizeLoop16([reg EXCEPT ![i] = RequantizeByte(reg[i], GenOffset(g), bits)],
                          GenAdvance(g), bits, i + 1)

\* for (int i = 0; i < 8; ++i) { ... } over the first 8 bytes of the register
RECURSIVE RequantizeLoop(_, _, _, _)
RequantizeLoop(reg, g, bits, i) ==
    IF i >= 8 THEN [reg |-> reg, gen |-> g]
    ELSE RequantizeLoop([reg EXCEPT ![i] = RequantizeByte(reg[i], GenOffset(g), bits)],
                        GenAdvance(g), bits, i + 1)

\* variant: no early return at kBits == 8
SSERequantizeNoReturn(reg, g, bits) == RequantizeLoop(reg, g, bits, 0)

\* if (kBits == 8) return;  then the loop
SSERequantize(reg, g, bits) ==
    IF bits = 8 THEN [reg |-> reg, gen |-> g]
    ELSE RequantizeLoop(reg, g, bits, 0)

----------------------------------------------------------------------------
\* SSE intrinsics

mm_loadl_epi64(mem, addr) == [i \in 0..15 |-> IF i < 8 THEN mem[addr + i] ELSE 0]

\* interleave the low four 16-bit words of a and b
mm_unpacklo_epi16(a, b) ==
    [i \in 0..15 |-> IF ((i \div 2) % 2) = 0 THEN a[2 * (i \div 4) + (i % 2)]
                                             ELSE b[2 * (i \div 4) + (i % 2)]]

\* dword k of the result is dword ((imm >> 2k) & 3) of a
mm_shuffle_epi32(a, imm) ==
    [i \in 0..15 |-> a[4 * ((imm \div Pow2(2 * (i \div 4))) % 4) + (i % 4)]]

\* 16-bit word j of the result is taken from b when bit j of imm is set
mm_blend_epi16(a, b, imm) ==
    [i \in 0..15 |-> IF ((imm \div Pow2(i \div 2)) % 2) = 1 THEN b[i] ELSE a[i]]

\* zero-extend the low 8 bytes to eight 16-bit words
mm_cvtepu8_epi16(a) == [j \in 0..7 |-> a[j]]

\* multiply 16-bit words pairwise and add adjacent products into four 32-bit lanes
mm_madd_epi16(a, b) == [k \in 0..3 |-> a[2 * k] * b[2 * k] + a[2 * k + 1] * b[2 * k + 1]]

\* lane-wise 32-bit add; a lane holds at most 255 * kRegisterSize per call, so
\* within MaxCalls calls no lane comes near 2^31 and the add never wraps
mm_add_epi32(a, b) == [k \in 0..3 |-> a[k] + b[k]]

mm_set1_epi16(v) == [j \in 0..7 |-> v]

\* store the low 8 bytes of a at addr
mm_storel_epi64(mem, addr, a) ==
    [mem EXCEPT ![addr] = a[0], ![addr + 1] = a[1], ![addr + 2] = a[2],
                ![addr + 3] = a[3], ![addr + 4] = a[4], ![addr + 5] = a[5],
                ![addr + 6] = a[6], ![addr + 7] = a[7]]

\* unaligned load / store of four int32 lanes of the sums array
mm_loadu_si128(sums, idx) == [k \in 0..3 |-> sums[idx + k]]

mm_storeu_si128(sums, idx, x) ==
    [sums EXCEPT ![idx] = x[0], ![idx + 1] = x[1], ![idx + 2] = x[2], ![idx + 3] = x[3]]

----------------------------------------------------------------------------
\* The source view: width-major side map, data(w, d) = w * width_stride + d

SrcAddr(src, w, d) == w * src.width_stride + d
SrcAt(src, w, d) == src.data[SrcAddr(src, w, d)]

\* Source blocks offered to the kernel: pattern 1 is all-255, pattern 2 numbers
\* the elements (w * 16 + d), the others are scrambled.
NumSources == 2

SrcStride(p) == kRegisterSize + (p % 3)

Pattern(p, w, d) ==
    IF p = 1 THEN 255
    ELSE (w * (16 + 21 * (p - 2)) + d * (1 + 100 * (p - 2)) + 13 * (p - 2)) % 256

Source(p, cells) ==
    [data |-> [a \in 0..(kKernelWidth(cells) * SrcStride(p) - 1) |->
                  Pattern(p, a \div SrcStride(p), a % SrcStride(p))],
     width_stride |-> SrcStride(p)]

Sources(cells) == {Source(p, cells) : p \in 1..NumSources}

----------------------------------------------------------------------------
\* One iteration of the inner loop of Pack, in three parts.

\* variant: the second register is requantized before the first
CellRegsReordered(src, g, bits, cell_start_width, cell_start_depth) ==
    LET base == SrcAddr(src, cell_start_width, cell_start_depth)
        xmm1 == mm_loadl_epi64(src.data, base)
        xmm2 == mm_loadl_epi64(src.data, base + 1 * src.width_stride)
        xmm3 == mm_loadl_epi64(src.data, base + 2 * src.width_stride)
        xmm4 == mm_loadl_epi64(src.data, base + 3 * src.width_stride)
        xmm5 == mm_unpacklo_epi16(xmm1, xmm2)
        xmm8 == mm_shuffle_epi32(xmm5, 49)
        xmm6 == mm_unpacklo_epi16(xmm3, xmm4)
        xmm7 == mm_shuffle_epi32(xmm6, 128)
        r10 == SSERequantize(mm_blend_epi16(xmm8, xmm6, 204), g, bits)
        r9 == SSERequantize(mm_blend_epi16(xmm5, xmm7, 204), r10.gen, bits)
        r11 == SSERequantize(mm_shuffle_epi32(r9.reg, 238), r9.gen, bits)
        r12 == SSERequantize(mm_shuffle_epi32(r10.reg, 238), r11.gen, bits)
    IN [xmm9 |-> r9.reg, xmm10 |-> r10.reg, xmm11 |-> r11.reg, xmm12 |-> r12.reg,
        gen |-> r12.gen]

\* lines 97-129: load four columns of 8 depth bytes, interleave, requantize
CellRegs(src, g, bits, cell_start_width, cell_start_depth) ==
    LET base == SrcAddr(src, cell_start_width, cell_start_depth)
        xmm1 == mm_loadl_epi64(src.data, base)
        xmm2 == mm_loadl_epi64(src.data, base + 1 * src.width_stride)
        xmm3 == mm_loadl_epi64(src.data, base + 2 * src.width_stride)
        xmm4 == mm_loadl_epi64(src.data, base + 3 * src.width_stride)
        xmm5 == mm_unpacklo_epi16(xmm1, xmm2)
        xmm8 == mm_shuffle_epi32(xmm5, 49)
        xmm6 == mm_unpacklo_epi16(xmm3, xmm4)
        xmm7 == mm_shuffle_epi32(xmm6, 128)
        r9 == SSERequantize(mm_blend_epi16(xmm5, xmm7, 204), g, bits)
        r10 == SSERequantize(mm_blend_epi16(xmm8, xmm6, 204), r9.gen, bits)
        r11 == SSERequantize(mm_shuffle_epi32(r9.reg, 238), r10.gen, bits)
        r12 == SSERequantize(mm_shuffle_epi32(r10.reg, 238), r11.gen, bits)
    IN [xmm9 |-> r9.reg, xmm10 |-> r10.reg, xmm11 |-> r11.reg, xmm12 |-> r12.reg,
        gen |-> r12.gen]

\* variant: the second and third stores exchange their destinations
CellStoreSwapped(mem, dst_ptr, regs, cells) ==
    LET m1 == mm_storel_epi64(mem, dst_ptr, regs.xmm9)
        m2 == mm_storel_epi64(m1, dst_ptr + 2 * kCellSize * cells, regs.xmm10)
        m3 == mm_storel_epi64(m2, dst_ptr + kCellSize * cells, regs.xmm11)
    IN mm_storel_epi64(m3, dst_ptr + 3 * kCellSize * cells, regs.xmm12)

\* lines 121-136: the four 8-byte stores, kCellSize * kCells bytes apart
CellStore(mem, dst_ptr, regs, cells) ==
    LET m1 == mm_storel_epi64(mem, dst_ptr, regs.xmm9)
        m2 == mm_storel_epi64(m1, dst_ptr + kCellSize * cells, regs.xmm10)
        m3 == mm_storel_epi64(m2, dst_ptr + 2 * kCellSize * cells, regs.xmm11)
    IN mm_storel_epi64(m3, dst_ptr + 3 * kCellSize * cells, regs.xmm12)

\* the same four stores on the store counters
CountStore8(cnt, addr) ==
    [cnt EXCEPT ![addr] = @ + 1, ![addr + 1] = @ + 1, ![addr + 2] = @ + 1,
                ![addr + 3] = @ + 1, ![addr + 4] = @ + 1, ![addr + 5] = @ + 1,
                ![addr + 6] = @ + 1, ![addr + 7] = @ + 1]

CountStore(cnt, dst_ptr, cells) ==
    CountStore8(CountStore8(CountStore8(CountStore8(cnt, dst_ptr),
                                        dst_ptr + kCellSize * cells),
                            dst_ptr + 2 * kCellSize * cells),
                dst_ptr + 3 * kCellSize * cells)

\* variant: the last register is left out of the sums
CellSumsDropsLast(sums_of_each_slice_xmm, regs) ==
    LET one == mm_set1_epi16(1)
        s9 == mm_add_epi32(sums_of_each_slice_xmm,
                           mm_madd_epi16(mm_cvtepu8_epi16(regs.xmm9), one))
        s10 == mm_add_epi32(s9, mm_madd_epi16(mm_cvtepu8_epi16(regs.xmm10), one))
    IN mm_add_epi32(s10, mm_madd_epi16(mm_cvtepu8_epi16(regs.xmm11), one))

\* lines 138-154: widen, add pairs, accumulate into the loaded sums register
CellSums(sums_of_each_slice_xmm, regs) ==
    LET one == mm_set1_epi16(1)
        s9 == mm_add_epi32(sums_of_each_slice_xmm,
                           mm_madd_epi16(mm_cvtepu8_epi16(regs.xmm9), one))
        s10 == mm_add_epi32(s9, mm_madd_epi16(mm_cvtepu8_epi16(regs.xmm10), one))
        s11 == mm_add_epi32(s10, mm_madd_epi16(mm_cvtepu8_epi16(regs.xmm11), one))
    IN mm_add_epi32(s11, mm_madd_epi16(mm_cvtepu8_epi16(regs.xmm12), one))

\* variant: start_width left out of the index
SumsIndexNoStart(start_width, cell_start_width) == cell_start_width

\* cell_sums_of_each_slice_ptr = dst->sums_of_each_slice() + start_width + cell_start_width
SumsIndex(start_width, cell_start_width) == start_width + cell_start_width

\* the source addresses read by the four 8-byte loads (lines 100-107)
LoadAddrs(src, cell_start_width, cell_start_depth) ==
    {SrcAddr(src, cell_start_width, cell_start_depth) + k * src.width_stride + i :
        k \in 0..3, i \in 0..7}

\* the whole body of the inner loop (lines 95-159) on the state
\* st = [data, wcount, sums, gen, dst_ptr, visits]; visits logs each iteration
PackCell(st, src, bits, cells, start_width, cell_start_width, cell_start_depth) ==
    LET idx == SumsIndex(start_width, cell_start_width)
        regs == CellRegs(src, st.gen, bits, cell_start_width, cell_start_depth)
    IN [data |-> CellStore(st.data, st.dst_ptr, regs, cells),
        wcount |-> CountStore(st.wcount, st.dst_ptr, cells),
        sums |-> mm_storeu_si128(st.sums, idx,
                                 CellSums(mm_loadu_si128(st.sums, idx), regs)),
        gen |-> regs.gen,
        dst_ptr |-> st.dst_ptr + kCellSize,
        visits |-> Append(st.visits,
                          [depth |-> cell_start_depth, width |-> cell_start_width,
                           dst_ptr |-> st.dst_ptr,
                           reads |-> LoadAddrs(src, cell_start_width, cell_start_depth)])]

\* for (cell_start_width = 0; cell_start_width < kKernelWidth; cell_start_width += kCellWidth)
RECURSIVE WidthLoop(_, _, _, _, _, _, _)
WidthLoop(st, src, bits, cells, start_width, cell_start_width, cell_start_depth) ==
    IF cell_start_width >= kKernelWidth(cells) THEN st
    ELSE WidthLoop(PackCell(st, src, bits, cells, start_width,
                            cell_start_width, cell_start_depth),
                   src, bits, cells, start_width,
                   cell_start_width + kCellWidth, cell_start_depth)

\* variant: the strip advance one row short
StripAdvanceShort(dst_ptr, cells) == dst_ptr + 2 * kCellSize * cells

\* dst_ptr += 3 * kCellSize * kCells;  (line 161)
StripAdvance(dst_ptr, cells) == dst_ptr + 3 * kCellSize * cells

\* variant: the depth loop bounded by depth_step, so that only one strip is packed
RECURSIVE DepthLoopOneStrip(_, _, _, _, _, _)
DepthLoopOneStrip(st, src, bits, cells, start_width, cell_start_depth) ==
    IF cell_start_depth >= depth_step THEN st
    ELSE LET s1 == WidthLoop(st, src, bits, cells, start_width, 0, cell_start_depth)
         IN DepthLoopOneStrip([s1 EXCEPT !.dst_ptr = StripAdvance(s1.dst_ptr, cells)],
                              src, bits, cells, start_width,
                              cell_start_depth + depth_step)

\* for (cell_start_depth = 0; cell_start_depth < kRegisterSize; cell_start_depth += depth_step)
RECURSIVE DepthLoop(_, _, _, _, _, _)
DepthLoop(st, src, bits, cells, start_width, cell_start_depth) ==
    IF cell_start_depth >= kRegisterSize THEN st
    ELSE LET s1 == WidthLoop(st, src, bits, cells, start_width, 0, cell_start_depth)
         IN DepthLoop([s1 EXCEPT !.dst_ptr = StripAdvance(s1.dst_ptr, cells)],
                      src, bits, cells, start_width, cell_start_depth + depth_step)

\* PackedSideBlock::seek_forward_n_cells(n): the cursor moves n cells forward
seek_forward_n_cells(pos, n) == pos + n * kCellSize

\* the result of a whole Pack call
PackResult(src, bits, cells, start_width, data, cnt, sums, g, pos) ==
    LET st == DepthLoop([data |-> data, wcount |-> cnt, sums |-> sums, gen |-> g,
                         dst_ptr |-> pos, visits |-> <<>>],
                        src, bits, cells, start_width, 0)
    IN [data |-> st.data, wcount |-> st.wcount, sums |-> st.sums, gen |-> st.gen,
        visits |-> st.visits,
        pos |-> seek_forward_n_cells(pos, (cells * kRegisterSize) \div kCellDepth)]

----------------------------------------------------------------------------
\* The sequential specification: a driver packs block after block into one
\* destination with one generator.

\* the generator as constructed
InitialGen == [x |-> 128, n |-> 0]

\* start widths offered: the first slice, one cell further (a range that
\* overlaps the first in part), and the last slice of the sums array
StartWidths(cells) == {0, kCellWidth, (NumSlices - 1) * kKernelWidth(cells)}

SumsLen(cells) == NumSlices * kKernelWidth(cells)

RqIdle == [v |-> 0, o |-> 0, scaled |-> 0, reg |-> <<>>, done |-> FALSE]

ParIdle == <<>>

Init ==
    /\ kCells \in 1..MaxCells
    /\ kBits \in 1..8
    /\ dst_data = [a \in 0..(MaxCalls * BlockBytes(kCells) - 1) |-> -1]
    /\ wcount = [a \in 0..(MaxCalls * BlockBytes(kCells) - 1) |-> 0]
    /\ dst_pos = 0
    /\ sums_of_each_slice = [c \in 0..(SumsLen(kCells) - 1) |-> 0]
    /\ rounding_offset_generator = InitialGen
    /\ calls = <<>>
    /\ rq = RqIdle
    /\ par = ParIdle

Pack(src, start_width) ==
    /\ Len(calls) < MaxCalls
    /\ \E r \in {PackResult(src, kBits, kCells, start_width, dst_data, wcount,
                            sums_of_each_slice, rounding_offset_generator, dst_pos)} :
          /\ dst_data' = r.data
          /\ wcount' = r.wcount
          /\ sums_of_each_slice' = r.sums
          /\ rounding_offset_generator' = r.gen
          /\ dst_pos' = r.pos
          /\ calls' = Append(calls, [src |-> src, start_width |-> start_width,
                                     pos |-> dst_pos, pos_after |-> r.pos,
                                     gen |-> rounding_offset_generator,
                                     gen_after |-> r.gen,
                                     sums |-> sums_of_each_slice,
                                     visits |-> r.visits])
    /\ UNCHANGED <<kCells, kBits, rq, par>>

Next == \E src \in Sources(kCells), start_width \in StartWidths(kCells) :
            Pack(src, start_width)

Spec == Init /\ [][Next]_vars

----------------------------------------------------------------------------
\* Vocabulary of the properties

\* byte offset, from the cursor at the start of a call, of the element at
\* column w and depth d of the block in the cell layout (cells of 4 x 2 bytes)
DstOffset(cells, w, d) ==
    (d \div kCellDepth) * kCellSize * cells + (w \div kCellWidth) * kCellSize
        + (w % kCellWidth) * kCellDepth + (d % kCellDepth)

Columns(cells) == 0..(kKernelWidth(cells) - 1)
Depths == 0..(kRegisterSize - 1)
CallIds == 1..Len(calls)

\* the call that has just completed
LastCall == IF calls = <<>> THEN {} ELSE {Len(calls)}

\* the destination byte that call i holds for column w, depth d
PackedAt(i, w, d) == dst_data[calls[i].pos + DstOffset(kCells, w, d)]

\* sum over the depth positions d..kRegisterSize-1 of the bytes call i wrote for column w
RECURSIVE ColumnSum(_, _, _)
ColumnSum(i, w, d) ==
    IF d >= kRegisterSize THEN 0 ELSE PackedAt(i, w, d) + ColumnSum(i, w, d + 1)

\* sum over the calls i..Len(calls) of the bytes written for absolute column c
RECURSIVE WrittenSum(_, _)
WrittenSum(c, i) ==
    IF i > Len(calls) THEN 0
    ELSE (IF c - calls[i].start_width \in Columns(kCells)
          THEN ColumnSum(i, c - calls[i].start_width, 0) ELSE 0)
         + WrittenSum(c, i + 1)

\* the generator state k draws after g (GenAdvance iterated k times)
GenAfter(g, k) == [x |-> (g.x + AddConst * k) % 255, n |-> g.n + k]

----------------------------------------------------------------------------
\* C1: starting from zero sums, after any sequence of Pack calls every sums
\* entry of an absolute column c equals the sum of the post-requantization
\* bytes the calls wrote to the destination for column c; each call adds to
\* sums[start_width + w] exactly the sum of the kRegisterSize bytes it wrote
\* for column w.
C1_SumCorrect ==
    /\ \A c \in DOMAIN sums_of_each_slice : sums_of_each_slice[c] = WrittenSum(c, 1)
    /\ \A i \in LastCall : \A w \in Columns(kCells) :
          sums_of_each_slice[calls[i].start_width + w]
                - calls[i].sums[calls[i].start_width + w]
             = ColumnSum(i, w, 0)

\* two calls with overlapping column ranges at a reduced bit depth, and at full depth
C1_Witness ==
    /\ Len(calls) = 2
    /\ kCells = 2
    /\ calls[1].start_width = 0
    /\ calls[2].start_width = kCellWidth
    /\ calls[1].src # calls[2].src
    /\ sums_of_each_slice[kCellWidth] > 0
    /\ kBits = 5

\* C2: at bit depth 8 requantization is the identity on every byte value and
\* draws nothing: a Pack call leaves the generator as it found it and every
\* destination byte it wrote is the unmodified source byte.
C2_IdentityAtFullDepth ==
    kBits = 8 =>
        /\ \A v \in 0..255 :
              SSERequantize([i \in 0..15 |-> v], rounding_offset_generator, kBits)
                 = [reg |-> [i \in 0..15 |-> v], gen |-> rounding_offset_generator]
        /\ \A i \in LastCall :
              /\ calls[i].gen_after = calls[i].gen
              /\ \A w \in Columns(kCells), d \in Depths :
                    PackedAt(i, w, d) = SrcAt(calls[i].src, w, d)

C2_Witness ==
    /\ kBits = 8
    /\ Len(calls) = 2
    /\ rounding_offset_generator.n = 0
    /\ \E i \in CallIds : \E w \in Columns(kCells), d \in Depths :
          PackedAt(i, w, d) \notin {0, 255}

\* C4: at bit depth 8 Pack is a bijection between the elements of the source
\* block and the destination bytes it writes: the source byte at column w,
\* depth d is stored at DstOffset(kCells, w, d) from the cursor at the start
\* of the call, so reading the block back through DstOffset recovers the source.
C4_LayoutRoundTrip ==
    kBits = 8 =>
        \A i \in LastCall :
            LET offs == {DstOffset(kCells, w, d) : w \in Columns(kCells), d \in Depths}
                back == [w \in Columns(kCells) |-> [d \in Depths |-> PackedAt(i, w, d)]]
            IN /\ offs = 0..(BlockBytes(kCells) - 1)
               /\ Cardinality(offs) = Cardinality(Columns(kCells) \X Depths)
               /\ \A a \in offs : wcount[calls[i].pos + a] = 1
               /\ back = [w \in Columns(kCells) |->
                            [d \in Depths |-> SrcAt(calls[i].src, w, d)]]

\* a block whose elements are pairwise distinct has been packed
C4_Witness ==
    /\ kBits = 8
    /\ kCells = 2
    /\ \E i \in CallIds :
          /\ calls[i].pos > 0
          /\ \A w1, w2 \in Columns(kCells) : \A d1, d2 \in Depths :
                (<<w1, d1>> # <<w2, d2>>)
                   => SrcAt(calls[i].src, w1, d1) # SrcAt(calls[i].src, w2, d2)

\* C6: each Pack call moves the cursor forward by exactly
\* kCells * kRegisterSize / kCellDepth cells, and writes every byte of those
\* cells exactly once and no other byte: no call overwrites an earlier call's
\* bytes and no gap is left between calls.
C6_CursorAndCoverage ==
    /\ dst_pos = Len(calls) * BlockCells(kCells) * kCellSize
    /\ \A i \in CallIds :
          /\ calls[i].pos_after = calls[i].pos + BlockCells(kCells) * kCellSize
          /\ calls[i].pos_after > calls[i].pos
          /\ calls[i].pos = (i - 1) * BlockBytes(kCells)
    /\ \A a \in DOMAIN dst_data :
          /\ wcount[a] = (IF a < dst_pos THEN 1 ELSE 0)
          /\ (dst_data[a] # -1) <=> (a < dst_pos)

C6_Witness ==
    /\ Len(calls) = 2
    /\ kCells = 2
    /\ dst_pos = 2 * BlockBytes(kCells)
    /\ wcount[dst_pos - 1] = 1

\* position, in the draw sequence of one call, of the offset used for the
\* element at column w, depth d: strips of depth_step depths, column groups of
\* kCellWidth columns, then the four depth pairs of the strip, then the lane
DrawIndex(cells, w, d) ==
    (d \div depth_step) * (kCellWidth * depth_step * cells)
        + (w \div kCellWidth) * (kCellWidth * depth_step)
        + ((d % depth_step) \div kCellDepth) * kCellSize
        + (w % kCellWidth) * kCellDepth + (d % kCellDepth)

\* the offset the generator yields at the k-th draw after state g
OffsetAt(g, k) == GenOffset(GenAfter(g, k))

BlockElems(cells) == kKernelWidth(cells) * kRegisterSize

\* C7: below bit depth 8 every element of the block is requantized exactly
\* once, with one generator draw of its own: each destination byte is
\* RequantizeByte applied a single time to the source byte of its position,
\* no two elements share a draw, and one Pack call advances the generator by
\* exactly kKernelWidth * kRegisterSize draws.
C7_RequantizedOnce ==
    kBits < 8 =>
        \A i \in LastCall :
            /\ calls[i].gen_after.n = calls[i].gen.n + BlockElems(kCells)
            /\ calls[i].gen_after = GenAfter(calls[i].gen, BlockElems(kCells))
            /\ {DrawIndex(kCells, w, d) : w \in Columns(kCells), d \in Depths}
                  = 0..(BlockElems(kCells) - 1)
            /\ \A w \in Columns(kCells), d \in Depths :
                  PackedAt(i, w, d) =
                     RequantizeByte(SrcAt(calls[i].src, w, d),
                                    OffsetAt(calls[i].gen, DrawIndex(kCells, w, d)), kBits)

\* a scrambled block packed at 7 bits, where a second requantization would show
C7_Witness ==
    /\ kBits = 7
    /\ kCells = 2
    /\ Len(calls) = 2
    /\ \E w \in Columns(kCells), d \in Depths :
          /\ PackedAt(2, w, d) \notin {0, 127}
          /\ PackedAt(2, w, d) # SrcAt(calls[2].src, w, d)

\* the element whose offset is the k-th draw of a call, as the code visits them
ElemAtDraw(cells, k) ==
    LET strip == k \div (kCellWidth * depth_step * cells)
        group == (k % (kCellWidth * depth_step * cells)) \div (kCellWidth * depth_step)
        pair == (k % (kCellWidth * depth_step)) \div kCellSize
        lane == k % kCellSize
    IN [w |-> group * kCellWidth + (lane \div kCellDepth),
        d |-> strip * depth_step + pair * kCellDepth + (lane % kCellDepth)]

\* the element whose offset is the k-th draw under the order of the original
\* statement: strips of 4 depths, sub-tiles of 4 x 4 in two 8-byte halves
ElemAtDrawHalves(cells, k) ==
    LET strip == k \div (16 * cells)
        group == (k % (16 * cells)) \div 16
        half == (k % 16) \div 8
        lane == k % 8
    IN [w |-> group * 4 + (lane \div 2),
        d |-> strip * 4 + half * 2 + (lane % 2)]

\* the destination bytes of call i are requantized with the offsets drawn in
\* the element order `order`
DrawnInOrder(i, order(_, _)) ==
    \A k \in 0..(BlockElems(kCells) - 1) :
        LET e == order(kCells, k)
        IN PackedAt(i, e.w, e.d) =
              RequantizeByte(SrcAt(calls[i].src, e.w, e.d), OffsetAt(calls[i].gen, k), kBits)

\* C10, with the sub-tile as the code has it: below bit depth 8 the offsets of one Pack call are
\* consumed strip by strip in increasing depth (strips of 8 depths), within a
\* strip column group by column group in increasing column, and within a
\* sub-tile of 4 columns x 8 depths the four 8-byte groups (depth pairs 0-1,
\* 2-3, 4-5, 6-7) one after the other, left to right within each; for
\* kCells > 1 this is not the order of increasing destination address.
C10_DrawOrder ==
    kBits < 8 =>
        \A i \in LastCall :
            /\ DrawnInOrder(i, ElemAtDraw)
            /\ kCells > 1 =>
                  \E k \in 0..(BlockElems(kCells) - 2) :
                      LET e1 == ElemAtDraw(kCells, k)
                          e2 == ElemAtDraw(kCells, k + 1)
                      IN /\ e1.w \div kCellWidth = e2.w \div kCellWidth
                         /\ DstOffset(kCells, e2.w, e2.d) - DstOffset(kCells, e1.w, e1.d)
                               = kCellSize * kCells - (kCellSize - 1)
                         /\ \E k3 \in (k + 2)..(BlockElems(kCells) - 1) :
                               LET e3 == ElemAtDraw(kCells, k3)
                               IN /\ e3.w \div kCellWidth # e1.w \div kCellWidth
                                  /\ DstOffset(kCells, e3.w, e3.d)
                                        > DstOffset(kCells, e1.w, e1.d)
                                  /\ DstOffset(kCells, e3.w, e3.d)
                                        < DstOffset(kCells, e2.w, e2.d)

C10_Witness ==
    /\ kBits = 7
    /\ kCells = 2
    /\ Len(calls) = 1
    /\ rounding_offset_generator.n = BlockElems(kCells)
    /\ \E k \in 0..(BlockElems(kCells) - 1) :
          ElemAtDraw(kCells, k) # ElemAtDrawHalves(kCells, k)

\* C10 as stated: the offsets are consumed in strips of 4 depths, and within
\* a 4 x 4 sub-tile first one 8-byte half, then the other.
C10_AsStated ==
    kBits < 8 => \A i \in LastCall : DrawnInOrder(i, ElemAtDrawHalves)

\* the sub-tile of source addresses of columns w0..w0+3, depths d0..d0+n-1
SubTile(src, w0, d0, n) ==
    {SrcAddr(src, w, d) : w \in w0..(w0 + kCellWidth - 1), d \in d0..(d0 + n - 1)}

\* the iterations of call i are the strips of `step` depths in increasing
\* depth, within a strip the groups of kCellWidth columns in increasing column,
\* each reading a sub-tile of kCellWidth columns x `step` depths
VisitsInStrips(i, step) ==
    LET v == calls[i].visits
    IN /\ Len(v) = (kRegisterSize \div step) * kCells
       /\ \A j \in 1..Len(v) :
             /\ v[j].depth = ((j - 1) \div kCells) * step
             /\ v[j].width = ((j - 1) % kCells) * kCellWidth
             /\ v[j].reads = SubTile(calls[i].src, v[j].width, v[j].depth, step)
             /\ Cardinality(v[j].reads) = kCellWidth * step

\* C5, with the strip depth the code uses: Pack partitions the depth extent into strips of 8
\* consecutive depths processed in increasing depth, and for each group of 4
\* consecutive columns of a strip reads a sub-tile of 8 depths x 4 columns, 32
\* source bytes per inner iteration; the strip loop runs kRegisterSize / 8 times.
C5_Strips ==
    \A i \in LastCall :
        /\ VisitsInStrips(i, depth_step)
        /\ depth_step = 8
        /\ Cardinality({calls[i].visits[j].depth : j \in 1..Len(calls[i].visits)})
              = kRegisterSize \div 8

C5_Witness ==
    /\ Len(calls) = 1
    /\ kCells = 2
    /\ Len(calls[1].visits) = 4
    /\ calls[1].visits[3].depth = 8

\* C5 as stated: strips of 4 depths, sub-tiles of 4 x 4 (16 source bytes), the
\* strip loop running kRegisterSize / 4 times.
C5_AsStated ==
    \A i \in LastCall :
        /\ VisitsInStrips(i, 4)
        /\ Cardinality({calls[i].visits[j].depth : j \in 1..Len(calls[i].visits)})
              = kRegisterSize \div 4

----------------------------------------------------------------------------
\* The requantization specification: SSERequantize applied to a register
\* holding one byte value v in every lane, with a generator whose next offset is o.

InitRq ==
    /\ kCells = 1
    /\ kBits \in 1..8
    /\ dst_data = <<>>
    /\ wcount = <<>>
    /\ dst_pos = 0
    /\ sums_of_each_slice = <<>>
    /\ rounding_offset_generator = InitialGen
    /\ calls = <<>>
    /\ \E v \in 0..255 : rq = [RqIdle EXCEPT !.v = v]
    /\ par = ParIdle

Requantize(o) ==
    /\ ~rq.done
    /\ \E r \in {SSERequantize([i \in 0..15 |-> rq.v], [x |-> o, n |-> 0], kBits)} :
          /\ rq' = [v |-> rq.v, o |-> o, scaled |-> Scaled(rq.v, kBits),
                    reg |-> r.reg, done |-> TRUE]
          /\ rounding_offset_generator' = r.gen
    /\ UNCHANGED <<kCells, kBits, dst_data, dst_pos, sums_of_each_slice, wcount,
                   calls, par>>

NextRq == \E o \in 0..254 : Requantize(o)

SpecRequantize == InitRq /\ [][NextRq]_vars

\* C3: for every bit depth b in 1..7, every source byte v in 0..255 and every
\* rounding offset o in 0..254, the requantized value (v * (2^b - 1) + o) / 255
\* lies in 0..2^b - 1, the product v * (2^b - 1) fits in 16 bits unwrapped, and
\* v = 255 yields 2^b - 1 whatever the offset.
C3_RangeBound ==
    (rq.done /\ kBits < 8) =>
        LET max_val == Pow2(kBits) - 1
        IN /\ rq.scaled = rq.v * max_val
           /\ rq.v * max_val < 65536
           /\ rq.reg[0] = (rq.v * max_val + rq.o) \div 255
           /\ \A i \in 0..7 : rq.reg[i] \in 0..max_val
           /\ (rq.v = 255) => (\A i \in 0..7 : rq.reg[i] = max_val)

\* the top of the range at 4 bits with the largest offset
C3_Witness ==
    /\ rq.done
    /\ kBits = 4
    /\ rq.v = 255
    /\ rq.o = 254
    /\ rq.reg[0] = 15

----------------------------------------------------------------------------
\* The concurrent specification: two Pack invocations run on two threads, each
\* with its own source, generator and destination bytes, sharing one sums
\* array and packing disjoint column ranges.  An invocation touches the shared
\* array twice per inner iteration: the load of line 140 and the store of
\* line 156; everything between them is local to the thread.

Invocations == {1, 2}

ParBitDepths == {4, 8}

BlankBlock(cells) == [a \in 0..(BlockBytes(cells) - 1) |-> -1]

SliceStarts(cells) == {kKernelWidth(cells) * k : k \in 0..(NumSlices - 1)}

InitPar ==
    /\ kCells \in 1..MaxCells
    /\ kBits \in ParBitDepths
    /\ dst_data = <<>>
    /\ wcount = <<>>
    /\ dst_pos = 0
    /\ sums_of_each_slice = [c \in 0..(SumsLen(kCells) - 1) |-> 0]
    /\ rounding_offset_generator = InitialGen
    /\ calls = <<>>
    /\ rq = RqIdle
    /\ \E s1, s2 \in Sources(kCells), w1, w2 \in SliceStarts(kCells) :
          /\ w1 # w2
          /\ par = [p \in Invocations |->
                       [pc |-> "body",
                        src |-> IF p = 1 THEN s1 ELSE s2,
                        start_width |-> IF p = 1 THEN w1 ELSE w2,
                        cell_start_depth |-> 0,
                        cell_start_width |-> 0,
                        dst_ptr |-> 0,
                        pos |-> 0,
                        data |-> BlankBlock(kCells),
                        gen |-> InitialGen,
                        sums_xmm |-> [k \in 0..3 |-> 0],
                        stored |-> 0]]

\* lines 95-154 of one inner iteration: loads, interleave, requantization and
\* the stores to the thread's own destination, then the load of the four
\* shared sums (line 140) and the local adds
ParBody(p) ==
    LET me == par[p]
        idx == SumsIndex(me.start_width, me.cell_start_width)
    IN /\ me.pc = "body"
       /\ \E regs \in {CellRegs(me.src, me.gen, kBits, me.cell_start_width,
                                me.cell_start_depth)} :
             par' = [par EXCEPT ![p] =
                        [me EXCEPT !.pc = "store",
                                   !.data = CellStore(me.data, me.dst_ptr, regs, kCells),
                                   !.gen = regs.gen,
                                   !.sums_xmm =
                                       CellSums(mm_loadu_si128(sums_of_each_slice, idx),
                                                regs)]]
       /\ UNCHANGED <<kCells, kBits, dst_data, dst_pos, sums_of_each_slice,
                      rounding_offset_generator, wcount, calls, rq>>

\* lines 156-163: the store of the four sums, then the loop increments and,
\* after the last iteration, the cursor advance
ParStore(p) ==
    LET me == par[p]
        idx == SumsIndex(me.start_width, me.cell_start_width)
        last_group == me.cell_start_width + kCellWidth >= kKernelWidth(kCells)
        last_strip == me.cell_start_depth + depth_step >= kRegisterSize
    IN /\ me.pc = "store"
       /\ sums_of_each_slice' = mm_storeu_si128(sums_of_each_slice, idx, me.sums_xmm)
       /\ par' = [par EXCEPT ![p] =
                     [me EXCEPT
                        !.stored = @ + 1,
                        !.cell_start_width = IF last_group THEN 0 ELSE @ + kCellWidth,
                        !.cell_start_depth = IF last_group THEN @ + depth_step ELSE @,
                        !.dst_ptr = IF last_group
                                    THEN StripAdvance(@ + kCellSize, kCells)
                                    ELSE @ + kCellSize,
                        !.pos = IF last_group /\ last_strip
                                THEN seek_forward_n_cells(@, (kCells * kRegisterSize)
                                                                 \div kCellDepth)
                                ELSE @,
                        !.pc = IF last_group /\ last_strip THEN "done" ELSE "body"]]
       /\ UNCHANGED <<kCells, kBits, dst_data, dst_pos, rounding_offset_generator,
                      wcount, calls, rq>>

NextPar == \E p \in Invocations : ParBody(p) \/ ParStore(p)

SpecPar == InitPar /\ [][NextPar]_vars

\* the sums a Pack of invocation p alone leaves after its first n inner
\* iterations, starting from the sums array `sums`
RECURSIVE SoloSteps(_, _, _, _, _)
SoloSteps(st, p, cell_start_depth, cell_start_width, n) ==
    IF n = 0 THEN st
    ELSE LET last_group == cell_start_width + kCellWidth >= kKernelWidth(kCells)
         IN SoloSteps(PackCell(st, par[p].src, kBits, kCells, par[p].start_width,
                               cell_start_width, cell_start_depth),
                      p,
                      IF last_group THEN cell_start_depth + depth_step
                                    ELSE cell_start_depth,
                      IF last_group THEN 0 ELSE cell_start_width + kCellWidth,
                      n - 1)

ZeroSums == [c \in DOMAIN sums_of_each_slice |-> 0]

SoloSums(p, n) ==
    SoloSteps([data |-> BlankBlock(kCells), wcount |-> BlankBlock(kCells),
               sums |-> ZeroSums, gen |-> InitialGen, dst_ptr |-> 0,
               visits |-> <<>>],
              p, 0, 0, n).sums

\* the sums after invocation p, then invocation q, each run as one whole call
SerialSums(p, q) ==
    LET blank == BlankBlock(kCells)
        g == InitialGen
        first == PackResult(par[p].src, kBits, kCells, par[p].start_width,
                            blank, blank, ZeroSums, g, 0)
    IN PackResult(par[q].src, kBits, kCells, par[q].start_width,
                  blank, blank, first.sums, g, 0).sums

InRange(p, c) ==
    /\ c >= par[p].start_width
    /\ c < par[p].start_width + kKernelWidth(kCells)

\* C8: a Pack modifies only the sums entries of the columns
\* start_width .. start_width + kKernelWidth - 1: under every interleaving of
\* the load and store steps of two invocations with disjoint column ranges,
\* the entries of either range are what that invocation alone has added so
\* far, every other entry is untouched, and the final sums are those of
\* either serial order.
C8_DisjointSums ==
    /\ \A c \in DOMAIN sums_of_each_slice :
          (\A p \in Invocations : ~InRange(p, c)) => sums_of_each_slice[c] = 0
    /\ \A p \in Invocations : \E solo \in {SoloSums(p, par[p].stored)} :
          \A c \in DOMAIN sums_of_each_slice :
              InRange(p, c) => sums_of_each_slice[c] = solo[c]
    /\ (\A p \in Invocations : par[p].pc = "done") =>
          /\ sums_of_each_slice = SerialSums(1, 2)
          /\ sums_of_each_slice = SerialSums(2, 1)

\* both threads hold loaded sums they have not stored yet, each after a first
\* completed iteration
C8_Witness ==
    /\ DOMAIN par = Invocations
    /\ kCells = 2
    /\ \A p \in Invocations : par[p].pc = "store" /\ par[p].stored = 1
    /\ par[1].src # par[2].src

====
